---------------------------- MODULE Spec2Model ----------------------------
(***************************************************************************)
(* A model of the LLM inference service.                                   *)
(*                                                                         *)
(* backend/src/main.rs: the resource ledger (models, model_sizes,          *)
(* active_model under a VRAM limit), the admission semaphore and the       *)
(* generation handlers (infer_handler, infer_stream_handler) that run      *)
(* run_inference on a blocking worker under the instance mutex.            *)
(*                                                                         *)
(* Granularity.  Every handler section that holds the `models` mutex is    *)
(* one action: all handlers take `models` before `model_sizes` and         *)
(* `active_model`, so such sections exclude each other.  The probe         *)
(* (get_model_file_info) and the device load (LoadedModel::load) run with  *)
(* no lock held and touch no shared state; their outcome is chosen in the  *)
(* action that follows them.                                               *)
(***************************************************************************)
EXTENDS Integers, Sequences, FiniteSets, TLC

(***************************************************************************)
(* Bounds of the model.                                                    *)
(***************************************************************************)
MaxLoaders == 2     \* administrative requests in flight at the same time
MaxReq == 2         \* generation requests in one behaviour
MaxTokens == 2      \* max_tokens of a generation request
MaxPrompt == 2      \* tokens the prompt encodes to
MaxMessages == 102  \* messages one stream worker sends (model line, deltas, [DONE])
MaxTasks == 3       \* handler invocations followed lock by lock at the same time

(***************************************************************************)
(* The configuration: the models of config.toml and, for each, the size of *)
(* its weight file in MB (what std::fs::metadata reports, / 1024 / 1024).  *)
(***************************************************************************)
Models == {"phi", "mistral", "llama3"}
Names == Models \cup {"unknown"}
NoModel == ""
FileSizeMB == [m \in Models |->
                 CASE m = "phi" -> 2000
                   [] m = "mistral" -> 3500
                   [] m = "llama3" -> 3500]
\* What nvidia-smi reports as memory.total; -1 stands for a failed query.
VramProbes == {-1, 4096}

OverheadMB == 500
SafetyMarginMB == 1024
DefaultVramMB == 6976
SemaphorePermits == 1
MAX_MODELS == 2

Loaders == 1..MaxLoaders
Req == 1..MaxReq
NoReq == 0
\* An instance (an Arc<StdMutex<LoadedModel>>) is named by its model and an
\* index: a model has at most one instance in the map and one more per worker
\* that still holds a clone of an older one.
InstIdx == 1..(MaxReq + 1)
Instances == Models \X InstIdx
NoInst == 0

VARIABLES
  program,        \* which binary runs: "backend" (backend/) or "server" (server/)
  slots,          \* server ModelManager.slots: the names that have a ModelSlot
  slots_lock,     \* server: the request whose worker holds the slots mutex
  srv_res,        \* server: the answer of the last load_model / unload_model
  vram_limit,     \* AppState.vram_limit
  iter_order,     \* the iteration order of the `models` HashMap (fixed per process)
  models,         \* AppState.models: name -> NoInst (None) or the instance's index
  model_sizes,    \* AppState.model_sizes: name -> MB
  active_model,   \* AppState.active_model
  semaphore,      \* AppState.semaphore: available permits
  lock_holder,    \* per instance StdMutex: the request whose worker holds it
  poisoned,       \* the instances whose StdMutex is poisoned
  loader,         \* per administrative request in flight: the handler's position,
                  \* the ledger locks it holds, and the answer it returned last
  req,            \* per generation request: handler and worker position
  session,        \* one generation request followed through run_inference
  channel,        \* the mpsc channel of one stream request, its worker and its
                  \* receiver
  task            \* per handler invocation followed lock by lock: the path it
                  \* takes through its handler and its place on it

env == <<program, vram_limit, iter_order, session, channel, task>>
srv == <<slots, slots_lock, srv_res>>
backend == <<models, model_sizes, active_model, semaphore, lock_holder, poisoned,
             loader>>

vars == <<program, slots, slots_lock, srv_res, vram_limit, iter_order, models, model_sizes, active_model, semaphore,
          lock_holder, poisoned, loader, req, session, channel, task>>

(***************************************************************************)
(* detect_vram_mb: total - 1024 (saturating) when the query succeeds, the  *)
(* hardcoded default otherwise.                                            *)
(***************************************************************************)
detect_vram_mb(total) ==
  IF total < 0 THEN DefaultVramMB
  ELSE IF total >= SafetyMarginMB THEN total - SafetyMarginMB ELSE 0

(***************************************************************************)
(* get_model_file_info: the file size plus the fixed overhead.             *)
(***************************************************************************)
get_model_file_info(name) == FileSizeMB[name] + OverheadMB

Perms(S) ==
  {f \in [1..Cardinality(S) -> S] : \A i, j \in DOMAIN f : i # j => f[i] # f[j]}

RECURSIVE SumSizes(_, _, _)
SumSizes(ms, sizes, S) ==
  IF S = {} THEN 0
  ELSE LET n == CHOOSE x \in S : TRUE
       IN (IF ms[n] # NoInst THEN sizes[n] ELSE 0) + SumSizes(ms, sizes, S \ {n})

\* The sum load_model_handler and list_models compute: the recorded sizes of the
\* models whose instance is present.
current_usage_mb(ms, sizes) == SumSizes(ms, sizes, Models)

Usage == current_usage_mb(models, model_sizes)
Loaded == {m \in Models : models[m] # NoInst}

(***************************************************************************)
(* Instances live as long as an Arc refers to them: the map's entry, or    *)
(* the clone a spawned worker owns until its closure ends.                 *)
(***************************************************************************)
WorkerAlive(q) == q.wpc \in {"spawned", "running"}
Held(rq) == {<<rq[r].active, rq[r].inst>> : r \in {x \in Req : WorkerAlive(rq[x])}}
Live(ms, rq) == {<<m, ms[m]>> : m \in {x \in Models : ms[x] # NoInst}} \cup Held(rq)
\* The poison flags that remain once the instances no Arc refers to are dropped.
DropDead(ps, ms, rq) == ps \cap Live(ms, rq)
\* The instance LoadedModel::load creates for `name`.
new_instance(name, rq) ==
  CHOOSE k \in InstIdx :
    /\ <<name, k>> \notin Held(rq)
    /\ \A j \in InstIdx : <<name, j>> \notin Held(rq) => k <= j

\* A request slot before its first request: no handler runs, no ledger lock is
\* held, nothing was answered, no list was returned and nothing was evicted.
IdleLoader == [pc |-> "idle", name |-> NoModel, res |-> "none", held |-> {},
               list |-> <<>>, victims |-> <<>>]

IdleReq == [kind |-> "none", pc |-> "idle", active |-> NoModel, inst |-> NoInst,
            wpc |-> "none", steps |-> 0, connected |-> FALSE, permit |-> FALSE,
            res |-> "none", ticket |-> 0]

\* backend main(): every configured model unloaded with size 0, no active
\* model, one permit.
BackendState ==
  /\ models = [m \in Models |-> NoInst]
  /\ model_sizes = [m \in Models |-> 0]
  /\ active_model = NoModel
  /\ semaphore = SemaphorePermits
  /\ lock_holder = [i \in Instances |-> NoReq]
  /\ poisoned = {}
  /\ loader = [l \in Loaders |-> IdleLoader]
  /\ req = [r \in Req |-> IdleReq]

\* server main(): ModelManager::new(), an empty slot map.
ServerState ==
  /\ slots = {}
  /\ slots_lock = NoReq
  /\ srv_res = "none"

\* No request is followed through run_inference.
NoSession ==
  [caller |-> "none", stage |-> "none", permit |-> FALSE, active |-> NoModel,
   inst |-> NoInst, prompt_len |-> 0, max_new_tokens |-> 0, index |-> 0,
   generated |-> <<>>, initial_text |-> <<>>, current_text |-> <<>>,
   prev_text_len |-> 0, emitted |-> <<>>, calls |-> <<>>, result |-> "none",
   connected |-> FALSE, emit_failed |-> FALSE, events |-> <<>>,
   response |-> "none"]

\* No handler invocation is followed lock by lock.
Tasks == 1..MaxTasks
NoTask == [handler |-> "none", path |-> "none", at |-> 0]
NoTasks == [t \in Tasks |-> NoTask]

\* No stream request has made its channel.
NoChannel == [producer |-> "none", rx |-> FALSE, queue |-> 0, sent |-> 0]

InitBackend ==
  /\ session = NoSession
  /\ channel = NoChannel
  /\ task = NoTasks
  /\ program = "backend"
  /\ vram_limit \in {detect_vram_mb(t) : t \in VramProbes}
  /\ iter_order \in Perms(Models)
  /\ BackendState
  /\ ServerState

\* The server has no VRAM limit and iterates no map: the two backend settings
\* are pinned to one value.
InitServer ==
  /\ session = NoSession
  /\ channel = NoChannel
  /\ task = NoTasks
  /\ program = "server"
  /\ vram_limit = DefaultVramMB
  /\ iter_order = <<"phi", "mistral", "llama3">>
  /\ BackendState
  /\ ServerState

Init == InitBackend \/ InitServer

(***************************************************************************)
(* load_model_handler                                                      *)
(***************************************************************************)

\* The victim the eviction loop picks: the first entry of models.iter() whose
\* instance is present; NoModel when there is none (victim stays empty).
first_loaded_in(order, ms) ==
  IF \E i \in DOMAIN order : ms[order[i]] # NoInst
  THEN order[CHOOSE i \in DOMAIN order :
               /\ ms[order[i]] # NoInst
               /\ \A j \in DOMAIN order : ms[order[j]] # NoInst => i <= j]
  ELSE NoModel

\* The same under this process's iteration order of the map.
first_loaded(ms) == first_loaded_in(iter_order, ms)

\* Mutant: the loop compares the current usage alone with the limit.
RECURSIVE evict_loop_ignores_required(_, _, _, _, _)
evict_loop_ignores_required(ms, sizes, current, required, victims) ==
  IF current > vram_limit
  THEN LET victim == first_loaded(ms)
       IN IF victim = NoModel
          THEN [models |-> ms, current |-> current, victims |-> victims,
                too_large |-> TRUE]
          ELSE evict_loop_ignores_required([ms EXCEPT ![victim] = NoInst], sizes,
                                           current - sizes[victim], required,
                                           Append(victims, victim))
  ELSE [models |-> ms, current |-> current, victims |-> victims,
        too_large |-> FALSE]

\* Mutant: once the request does not fit, every loaded model is evicted.
RECURSIVE evict_loop_until_empty(_, _, _, _, _)
evict_loop_until_empty(ms, sizes, current, required, victims) ==
  IF current + required > vram_limit \/ (victims # <<>> /\ first_loaded(ms) # NoModel)
  THEN LET victim == first_loaded(ms)
       IN IF victim = NoModel
          THEN [models |-> ms, current |-> current, victims |-> victims,
                too_large |-> TRUE]
          ELSE evict_loop_until_empty([ms EXCEPT ![victim] = NoInst], sizes,
                                      current - sizes[victim], required,
                                      Append(victims, victim))
  ELSE [models |-> ms, current |-> current, victims |-> victims,
        too_large |-> FALSE]

\* The loop `while current_usage_mb + required_mb > vram_limit`: the map and the
\* running sum it ends with, the victims in the order they were evicted, and
\* whether it ended by the "too large" return.
RECURSIVE evict_loop(_, _, _, _, _)
evict_loop(ms, sizes, current, required, victims) ==
  IF current + required > vram_limit
  THEN LET victim == first_loaded(ms)
       IN IF victim = NoModel
          THEN [models |-> ms, current |-> current, victims |-> victims,
                too_large |-> TRUE]
          ELSE evict_loop([ms EXCEPT ![victim] = NoInst], sizes,
                          current - sizes[victim], required,
                          Append(victims, victim))
  ELSE [models |-> ms, current |-> current, victims |-> victims,
        too_large |-> FALSE]

\* A load request slot once the handler has returned `res`.
Answered(res) == [IdleLoader EXCEPT !.res = res]

\* The three tokio Mutexes of AppState that guard the ledger.
LedgerLocks == {"models", "model_sizes", "active_model"}

\* `lock().await` returns: no request in flight holds the lock.
Free(lock) == \A k \in Loaders : lock \notin loader[k].held

\* Mutant: the guard stays alive across the next await.
drop_forgotten(held, lock) == held

\* drop(guard): the locks a handler still holds once it dropped `lock`.
drop(held, lock) == held \ {lock}

\* The handler at its first spawn_blocking await (the probe), the models guard
\* of line 194 dropped at line 202.
Probing(name) == [IdleLoader EXCEPT !.pc = "probing", !.name = name,
                                    !.held = drop({"models"}, "models")]

\* Mutant: the already-loaded return leaves the active pointer alone.
LoadStart_keeps_active(l, name) ==
  /\ loader[l].pc = "idle"
  /\ IF name \notin Models
     THEN loader' = [loader EXCEPT ![l] = Answered("not_found")]
     ELSE IF models[name] # NoInst
     THEN loader' = [loader EXCEPT ![l] = Answered("already_loaded")]
     ELSE loader' = [loader EXCEPT ![l] = Probing(name)]
  /\ UNCHANGED <<env, srv, models, model_sizes, active_model, semaphore,
                 lock_holder, poisoned, req>>

\* Lines 182-202: the config lookup and the already-loaded check.
LoadStart(l, name) ==
  /\ loader[l].pc = "idle"
  /\ IF name \notin Models
     THEN /\ loader' = [loader EXCEPT ![l] = Answered("not_found")]
          /\ UNCHANGED active_model
     ELSE IF models[name] # NoInst
     THEN /\ Free("models") /\ Free("active_model")
          /\ active_model' = name
          /\ loader' = [loader EXCEPT ![l] = Answered("already_loaded")]
     ELSE /\ Free("models")
          /\ loader' = [loader EXCEPT ![l] = Probing(name)]
          /\ UNCHANGED active_model
  /\ UNCHANGED <<env, srv, models, model_sizes, semaphore,
                 lock_holder, poisoned, req>>

\* Mutant: the failed probe records a size of 0 for the model.
LoadProbeFail_records_size(l) ==
  /\ loader[l].pc = "probing"
  /\ model_sizes' = [model_sizes EXCEPT ![loader[l].name] = 0]
  /\ loader' = [loader EXCEPT ![l] = Answered("probe_failed")]
  /\ UNCHANGED <<env, srv, models, active_model,
                 semaphore, lock_holder, poisoned, req>>

\* Lines 204-217: get_model_file_info failed.
LoadProbeFail(l) ==
  /\ loader[l].pc = "probing"
  /\ loader' = [loader EXCEPT ![l] = Answered("probe_failed")]
  /\ UNCHANGED <<env, srv, models, model_sizes, active_model,
                 semaphore, lock_holder, poisoned, req>>

\* Lines 219-267: the probe succeeded; the VRAM check and the eviction loop,
\* under the models and model_sizes locks.
LoadAdmit(l) ==
  /\ loader[l].pc = "probing"
  /\ Free("models") /\ Free("model_sizes")
  /\ LET name == loader[l].name
         required_mb == get_model_file_info(name)
         sizes == [model_sizes EXCEPT ![name] = required_mb]
         out == evict_loop(models, sizes, current_usage_mb(models, sizes),
                           required_mb, <<>>)
     IN /\ model_sizes' = sizes
        /\ models' = out.models
        /\ poisoned' = DropDead(poisoned, out.models, req)
        /\ loader' = IF out.too_large
                     THEN [loader EXCEPT
                             ![l] = [Answered("too_large") EXCEPT
                                       !.victims = out.victims]]
                     ELSE [loader EXCEPT
                             ![l].pc = "loading",
                             ![l].victims = out.victims,
                             ![l].held = drop(drop({"models", "model_sizes"},
                                                   "models"), "model_sizes")]
  /\ UNCHANGED <<env, srv, active_model, semaphore, lock_holder, req>>

\* Lines 276-286: LoadedModel::load returned Ok.
LoadFinishOk(l) ==
  /\ loader[l].pc = "loading"
  /\ Free("models") /\ Free("active_model")
  /\ LET name == loader[l].name
         ms == [models EXCEPT ![name] = new_instance(name, req)]
     IN /\ models' = ms
        /\ poisoned' = DropDead(poisoned \ {<<name, ms[name]>>}, ms, req)
  /\ active_model' = loader[l].name
  /\ loader' = [loader EXCEPT ![l] = Answered("loaded")]
  /\ UNCHANGED <<env, srv, model_sizes, semaphore, lock_holder, req>>

\* Line 287: LoadedModel::load returned Err.
LoadFinishErr(l) ==
  /\ loader[l].pc = "loading"
  /\ loader' = [loader EXCEPT ![l] = Answered("load_failed")]
  /\ UNCHANGED <<env, srv, models, model_sizes, active_model,
                 semaphore, lock_holder, poisoned, req>>

(***************************************************************************)
(* unload_model_handler, set_model                                         *)
(***************************************************************************)
\* Mutant: the unload leaves the active pointer as it was.
unload_model_handler_keeps_active(l, name) ==
  /\ loader[l].pc = "idle"
  /\ IF name \in Models /\ models[name] # NoInst
     THEN /\ models' = [models EXCEPT ![name] = NoInst]
          /\ poisoned' = DropDead(poisoned, models', req)
          /\ loader' = [loader EXCEPT ![l] = Answered("unloaded")]
     ELSE /\ loader' = [loader EXCEPT ![l] = Answered("not_loaded")]
          /\ UNCHANGED <<models, poisoned>>
  /\ UNCHANGED <<env, srv, model_sizes, active_model, semaphore, lock_holder,
                 req>>

\* Lines 470-486.  The slot is set to None and the pointer cleared when it
\* named the model; a name without an instance, configured or not, is answered
\* "Model ... not loaded." and nothing is written.
unload_model_handler(l, name) ==
  /\ loader[l].pc = "idle"
  /\ Free("models")
  /\ IF name \in Models /\ models[name] # NoInst
     THEN /\ Free("active_model")
          /\ models' = [models EXCEPT ![name] = NoInst]
          /\ poisoned' = DropDead(poisoned, models', req)
          /\ active_model' = IF active_model = name THEN NoModel ELSE active_model
          /\ loader' = [loader EXCEPT ![l] = Answered("unloaded")]
     ELSE /\ loader' = [loader EXCEPT ![l] = Answered("not_loaded")]
          /\ UNCHANGED <<models, poisoned, active_model>>
  /\ UNCHANGED <<env, srv, model_sizes, semaphore, lock_holder, req>>

\* Mutant: a configured name is made active whether or not it is loaded.
set_model_any_configured(l, name) ==
  /\ loader[l].pc = "idle"
  /\ IF name \notin Models
     THEN /\ loader' = [loader EXCEPT ![l] = Answered("not_found")]
          /\ UNCHANGED active_model
     ELSE /\ active_model' = name
          /\ loader' = [loader EXCEPT ![l] = Answered("switched")]
  /\ UNCHANGED <<env, srv, models, model_sizes, semaphore,
                 lock_holder, poisoned, req>>

\* Lines 452-466.  "Model not found." for a name that is no key of the map,
\* the pointer set for a name with an instance, "Model ... not loaded."
\* otherwise.
set_model(l, name) ==
  /\ loader[l].pc = "idle"
  /\ Free("models")
  /\ IF name \notin Models
     THEN /\ loader' = [loader EXCEPT ![l] = Answered("not_found")]
          /\ UNCHANGED active_model
     ELSE IF models[name] # NoInst
     THEN /\ Free("active_model")
          /\ active_model' = name
          /\ loader' = [loader EXCEPT ![l] = Answered("switched")]
     ELSE /\ loader' = [loader EXCEPT ![l] = Answered("not_loaded")]
          /\ UNCHANGED active_model
  /\ UNCHANGED <<env, srv, models, model_sizes, semaphore,
                 lock_holder, poisoned, req>>

\* Mutant: the usage counts every recorded size, loaded or not.
model_list_counts_all(ms, sizes, active) ==
  [models |-> [m \in Models |-> [loaded |-> ms[m] # NoInst, size_mb |-> sizes[m]]],
   active |-> active,
   used |-> SumSizes([m \in Models |-> 1], sizes, Models)]

\* The ModelList list_models builds (lines 297-317): per model the loaded flag
\* and the recorded size, the active name, and `used`, the sizes of the loaded
\* models summed.
model_list(ms, sizes, active) ==
  [models |-> [m \in Models |-> [loaded |-> ms[m] # NoInst, size_mb |-> sizes[m]]],
   active |-> active,
   used |-> current_usage_mb(ms, sizes)]

\* Lines 293-318: GET /models, under the three ledger locks.
list_models(l) ==
  /\ loader[l].pc = "idle"
  /\ Free("models") /\ Free("model_sizes") /\ Free("active_model")
  /\ loader' = [loader EXCEPT
                  ![l] = [Answered("listed") EXCEPT
                            !.list = <<model_list(models, model_sizes,
                                                  active_model)>>]]
  /\ UNCHANGED <<env, srv, models, model_sizes, active_model, semaphore,
                 lock_holder, poisoned, req>>

LedgerNext ==
  \/ \E l \in Loaders, name \in Names : LoadStart(l, name)
  \/ \E l \in Loaders : LoadProbeFail(l)
  \/ \E l \in Loaders : LoadAdmit(l)
  \/ \E l \in Loaders : LoadFinishOk(l)
  \/ \E l \in Loaders : LoadFinishErr(l)
  \/ \E l \in Loaders, name \in Names : unload_model_handler(l, name)
  \/ \E l \in Loaders, name \in Names : set_model(l, name)

(***************************************************************************)
(* infer_handler (POST /infer) and the task infer_stream_handler spawns     *)
(* (POST /infer_stream).  req[r].pc is the position of the handler future   *)
(* (the spawned task, for a stream); req[r].wpc the position of the         *)
(* spawn_blocking worker.                                                   *)
(***************************************************************************)
Kinds == {"infer", "stream"}

\* Mutant: a dropped permit is not given back to the semaphore.
release_leaks(q) == semaphore

\* Dropping a semaphore permit (SemaphorePermit / OwnedSemaphorePermit).
release(q) == IF q.permit THEN semaphore + 1 ELSE semaphore

\* A request arrives.  For a stream the handler creates the channel, spawns the
\* task and returns the SSE response, whose stream owns the receiver.
Arrive(r, kind) ==
  /\ req[r].pc = "idle"
  /\ req' = [req EXCEPT ![r].kind = kind, ![r].pc = "wait", ![r].connected = TRUE]
  /\ UNCHANGED <<env, srv, models, model_sizes, active_model,
                 semaphore, lock_holder, poisoned, loader>>

\* tokio's Semaphore keeps the acquire futures that found no permit in a
\* queue and gives released permits to them in the order they were queued.
\* req[r].ticket is r's place in that queue, 0 when r is not in it.
\* The requests once r has left the queue: those behind it move up.
leave_queue(rq, r) ==
  [q \in Req |->
     IF q = r THEN [rq[q] EXCEPT !.ticket = 0]
     ELSE IF rq[r].ticket > 0 /\ rq[q].ticket > rq[r].ticket
     THEN [rq[q] EXCEPT !.ticket = @ - 1]
     ELSE rq[q]]

\* Mutant: a free permit goes to whichever request polls first.
first_in_line_any(r) == TRUE

\* r is the one a free permit goes to: the head of the queue, or any request
\* when nobody is queued.
first_in_line(r) ==
  \/ req[r].ticket = 1
  \/ req[r].ticket = 0 /\ \A q \in Req : req[q].ticket = 0

\* The acquire future is polled and finds no permit: it joins the queue.
Enqueue(r) ==
  /\ req[r].pc = "wait"
  /\ req[r].ticket = 0
  /\ semaphore = 0 \/ \E q \in Req : req[q].ticket > 0
  /\ req' = [req EXCEPT
              ![r].ticket = Cardinality({q \in Req : req[q].ticket > 0}) + 1]
  /\ UNCHANGED <<env, srv, models, model_sizes, active_model,
                 semaphore, lock_holder, poisoned, loader>>

\* semaphore.acquire() / acquire_owned() returns a permit.
acquire(r) ==
  /\ req[r].pc = "wait"
  /\ semaphore > 0
  /\ first_in_line(r)
  /\ semaphore' = semaphore - 1
  /\ req' = [leave_queue(req, r) EXCEPT ![r].pc = "ticket", ![r].permit = TRUE]
  /\ UNCHANGED <<env, srv, models, model_sizes, active_model,
                 lock_holder, poisoned, loader>>

\* Lines 329-332 / 374-383: read the active model; return when it is empty.
ReadActive(r) ==
  /\ req[r].pc = "ticket"
  /\ Free("active_model")
  /\ IF active_model = NoModel
     THEN /\ req' = [req EXCEPT ![r].pc = "done", ![r].permit = FALSE,
                                ![r].res = "no_active"]
          /\ semaphore' = release(req[r])
     ELSE /\ req' = [req EXCEPT ![r].pc = "resolved", ![r].active = active_model]
          /\ UNCHANGED semaphore
  /\ UNCHANGED <<env, srv, models, model_sizes, active_model,
                 lock_holder, poisoned, loader>>

\* Lines 333-349 / 384-407: look the instance up, clone its Arc and spawn the
\* blocking worker; return when the model has no instance.
Resolve(r) ==
  /\ req[r].pc = "resolved"
  /\ Free("models")
  /\ IF models[req[r].active] = NoInst
     THEN /\ req' = [req EXCEPT ![r].pc = "done", ![r].permit = FALSE,
                                ![r].active = NoModel, ![r].res = "not_loaded"]
          /\ semaphore' = release(req[r])
     ELSE /\ req' = [req EXCEPT ![r].pc = "await", ![r].inst = models[req[r].active],
                                ![r].wpc = "spawned"]
          /\ UNCHANGED semaphore
  /\ UNCHANGED <<env, srv, models, model_sizes, active_model,
                 lock_holder, poisoned, loader>>

\* The worker's state once its closure has ended: its Arc clone is dropped.
WorkerEnded(q, how) == [q EXCEPT !.wpc = how, !.steps = 0]

\* Mutant: the worker enters run_inference without waiting for the mutex.
WorkerLock_no_wait(r) ==
  /\ req[r].wpc = "spawned"
  /\ req' = [req EXCEPT ![r].wpc = "running"]
  /\ lock_holder' = [lock_holder EXCEPT ![<<req[r].active, req[r].inst>>] = r]
  /\ UNCHANGED <<env, srv, models, model_sizes, active_model, semaphore,
                 poisoned, loader>>

\* Lines 350 / 411: model_arc.lock().  /infer unwraps the result, and panics on
\* a poisoned mutex (the guard inside the error is dropped: the mutex is free
\* again); /infer_stream takes the guard out of the error.
WorkerLock(r) ==
  /\ req[r].wpc = "spawned"
  /\ LET i == <<req[r].active, req[r].inst>>
     IN /\ lock_holder[i] = NoReq
        /\ IF i \in poisoned /\ req[r].kind = "infer"
           THEN /\ req' = [req EXCEPT ![r] = WorkerEnded(req[r], "panicked")]
                /\ poisoned' = DropDead(poisoned, models, req')
                /\ UNCHANGED lock_holder
           ELSE /\ req' = [req EXCEPT ![r].wpc = "running"]
                /\ lock_holder' = [lock_holder EXCEPT ![i] = r]
                /\ UNCHANGED poisoned
  /\ UNCHANGED <<env, srv, models, model_sizes, active_model,
                 semaphore, loader>>

\* run_inference returns (Ok or Err): the closure ends and the guard is dropped.
WorkerReturn(r, how) ==
  /\ req' = [req EXCEPT ![r] = WorkerEnded(req[r], how)]
  /\ lock_holder' = [lock_holder EXCEPT ![<<req[r].active, req[r].inst>>] = NoReq]
  /\ poisoned' = DropDead(poisoned, models, req')

\* The callback panics (line 423): the unwinding drops the guard, which poisons
\* the mutex.
WorkerPanic(r) ==
  /\ req' = [req EXCEPT ![r] = WorkerEnded(req[r], "panicked")]
  /\ lock_holder' = [lock_holder EXCEPT ![<<req[r].active, req[r].inst>>] = NoReq]
  /\ poisoned' = DropDead(poisoned \cup {<<req[r].active, req[r].inst>>}, models, req')

\* The tokenizer or the engine fails (encode, decode, forward, sample):
\* run_inference returns Err.
WorkerFail(r) ==
  /\ req[r].wpc = "running"
  /\ WorkerReturn(r, "failed")
  /\ UNCHANGED <<env, srv, models, model_sizes, active_model,
                 semaphore, loader>>

\* One iteration of run_inference's loop: a token is sampled; `emit` says
\* whether the decoded text grew (the callback is called), `stop` whether the
\* token is a stop token.
WorkerStep(r, emit, stop) ==
  /\ req[r].wpc = "running"
  /\ req[r].steps < MaxTokens
  /\ IF emit /\ req[r].kind = "stream" /\ ~req[r].connected
     THEN WorkerPanic(r)
     ELSE IF stop \/ req[r].steps + 1 = MaxTokens
     THEN WorkerReturn(r, "finished")
     ELSE /\ req' = [req EXCEPT ![r].steps = @ + 1]
          /\ UNCHANGED <<lock_holder, poisoned>>
  /\ UNCHANGED <<env, srv, models, model_sizes, active_model,
                 semaphore, loader>>

\* Lines 361-363 / 433-442: the worker's JoinHandle resolves.  /infer unwraps
\* it (a panic of the worker panics the handler) and answers ok otherwise,
\* whatever run_inference returned; the stream task only logs.
Join(r) ==
  /\ req[r].pc = "await"
  /\ req[r].wpc \in {"finished", "failed", "panicked"}
  /\ req' = [req EXCEPT ![r].pc = "done", ![r].permit = FALSE,
                        ![r].active = NoModel, ![r].inst = NoInst, ![r].wpc = "none",
                        ![r].res = IF req[r].wpc = "panicked"
                                   THEN (IF req[r].kind = "infer" THEN "panic"
                                         ELSE "cancelled")
                                   ELSE IF req[r].kind = "infer" THEN "ok"
                                   ELSE req[r].wpc]
  /\ semaphore' = release(req[r])
  /\ UNCHANGED <<env, srv, models, model_sizes, active_model,
                 lock_holder, poisoned, loader>>

\* The client of a POST /infer goes away: the server drops the handler future
\* at its current await point, and with it the permit; a worker already
\* spawned runs on.
Abandon(r) ==
  /\ req[r].kind = "infer"
  /\ req[r].pc \in {"wait", "ticket", "resolved", "await"}
  /\ req' = [leave_queue(req, r) EXCEPT
              ![r].pc = "done", ![r].permit = FALSE, ![r].connected = FALSE,
              ![r].res = "abandoned"]
  /\ semaphore' = release(req[r])
  /\ UNCHANGED <<env, srv, models, model_sizes, active_model,
                 lock_holder, poisoned, loader>>

\* The client of a POST /infer_stream goes away: the receiver is dropped and
\* every later send fails; the spawned task runs on.
Disconnect(r) ==
  /\ req[r].kind = "stream"
  /\ req[r].pc \in {"wait", "ticket", "resolved", "await"}
  /\ req[r].connected
  /\ req' = [req EXCEPT ![r].connected = FALSE]
  /\ UNCHANGED <<env, srv, models, model_sizes, active_model,
                 semaphore, lock_holder, poisoned, loader>>

GenNext ==
  \/ \E r \in Req, kind \in Kinds : Arrive(r, kind)
  \/ \E r \in Req : Enqueue(r)
  \/ \E r \in Req : acquire(r)
  \/ \E r \in Req : ReadActive(r)
  \/ \E r \in Req : Resolve(r)
  \/ \E r \in Req : WorkerLock(r)
  \/ \E r \in Req : WorkerFail(r)
  \/ \E r \in Req, emit \in BOOLEAN, stop \in BOOLEAN : WorkerStep(r, emit, stop)
  \/ \E r \in Req : Join(r)
  \/ \E r \in Req : Abandon(r)
  \/ \E r \in Req : Disconnect(r)

(***************************************************************************)
(* server/src/model_manager.rs: ModelManager.  load_model and unload_model  *)
(* hold the slots mutex from their first line to their return.              *)
(***************************************************************************)
\* Mutant: the limit is never reached.
at_limit_never(n) == FALSE

\* slots.len() >= MAX_MODELS
at_limit(n) == n >= MAX_MODELS

load_model(name, ok) ==
  /\ slots_lock = NoReq
  /\ IF name \notin Models
     THEN /\ srv_res' = "not_found"
          /\ UNCHANGED slots
     ELSE IF name \in slots
     THEN /\ srv_res' = "already_loaded"
          /\ UNCHANGED slots
     ELSE IF at_limit(Cardinality(slots))
     THEN /\ srv_res' = "limit_reached"
          /\ UNCHANGED slots
     ELSE IF ~ok
     THEN /\ srv_res' = "load_failed"
          /\ UNCHANGED slots
     ELSE /\ srv_res' = "loaded"
          /\ slots' = slots \cup {name}
  /\ UNCHANGED <<env, slots_lock, backend, req>>

unload_model(name) ==
  /\ slots_lock = NoReq
  /\ IF name \in slots
     THEN /\ srv_res' = "unloaded"
          /\ slots' = slots \ {name}
     ELSE /\ srv_res' = "not_loaded"
          /\ UNCHANGED slots
  /\ UNCHANGED <<env, slots_lock, backend, req>>

(***************************************************************************)
(* server/src/api.rs inference, server/src/inference.rs generate and        *)
(* generate_blocking (POST /inference).                                     *)
(***************************************************************************)

\* api::inference: is_loaded, then generate() spawns the blocking worker and
\* awaits it.
inference(r, name) ==
  /\ req[r].pc = "idle"
  /\ slots_lock = NoReq
  /\ IF name \in slots
     THEN req' = [req EXCEPT ![r].kind = "inference", ![r].pc = "await",
                             ![r].active = name, ![r].wpc = "spawned",
                             ![r].connected = TRUE]
     ELSE req' = [req EXCEPT ![r].kind = "inference", ![r].pc = "done",
                             ![r].res = "not_loaded"]
  /\ UNCHANGED <<env, srv, backend>>

\* generate_blocking: model_manager.get_model(model_name)?
get_model(r) ==
  /\ req[r].wpc = "spawned"
  /\ slots_lock = NoReq
  /\ req' = IF req[r].active \in slots
            THEN [req EXCEPT ![r].wpc = "got"]
            ELSE [req EXCEPT ![r] = WorkerEnded(req[r], "failed")]
  /\ UNCHANGED <<env, srv, backend>>

\* generate_blocking: slots.lock().unwrap(), slots.get_mut(model_name)?
SrvLock(r) ==
  /\ req[r].wpc = "got"
  /\ slots_lock = NoReq
  /\ IF req[r].active \in slots
     THEN /\ req' = [req EXCEPT ![r].wpc = "running"]
          /\ slots_lock' = r
     ELSE /\ req' = [req EXCEPT ![r] = WorkerEnded(req[r], "failed")]
          /\ UNCHANGED slots_lock
  /\ UNCHANGED <<env, slots, srv_res, backend>>

\* generate_blocking returns: the guard on the slot map is dropped.
SrvReturn(r, how) ==
  /\ req' = [req EXCEPT ![r] = WorkerEnded(req[r], how)]
  /\ slots_lock' = NoReq

\* The tokenizer or the engine fails: generate_blocking returns Err.
SrvFail(r) ==
  /\ req[r].wpc = "running"
  /\ SrvReturn(r, "failed")
  /\ UNCHANGED <<env, slots, srv_res, backend>>

\* One iteration of generate_blocking's loop: `eos` says whether the sampled
\* token is the end-of-sequence token (Done is sent, break); otherwise the
\* token's text is sent, and a failed send breaks.
SrvStep(r, eos) ==
  /\ req[r].wpc = "running"
  /\ req[r].steps < MaxTokens
  /\ IF eos \/ ~req[r].connected \/ req[r].steps + 1 = MaxTokens
     THEN SrvReturn(r, "finished")
     ELSE /\ req' = [req EXCEPT ![r].steps = @ + 1]
          /\ UNCHANGED slots_lock
  /\ UNCHANGED <<env, slots, srv_res, backend>>

\* generate(): the spawn_blocking handle resolves; `??` turns a failure into
\* the error answer.
SrvJoin(r) ==
  /\ req[r].pc = "await"
  /\ req[r].wpc \in {"finished", "failed"}
  /\ req' = [req EXCEPT ![r].pc = "done", ![r].active = NoModel, ![r].wpc = "none",
                        ![r].res = IF req[r].wpc = "failed" THEN "error" ELSE "ok"]
  /\ UNCHANGED <<env, srv, backend>>

\* The client goes away: the handler future is dropped, and the receiver of
\* the token channel with it; the worker runs on.
SrvAbandon(r) ==
  /\ req[r].pc = "await"
  /\ req' = [req EXCEPT ![r].pc = "done", ![r].connected = FALSE,
                        ![r].res = "abandoned"]
  /\ UNCHANGED <<env, srv, backend>>

SrvAdminNext ==
  \/ \E name \in Names, ok \in BOOLEAN : load_model(name, ok)
  \/ \E name \in Names : unload_model(name)

SrvGenNext ==
  \/ \E r \in Req, name \in Names : inference(r, name)
  \/ \E r \in Req : get_model(r)
  \/ \E r \in Req : SrvLock(r)
  \/ \E r \in Req : SrvFail(r)
  \/ \E r \in Req, eos \in BOOLEAN : SrvStep(r, eos)
  \/ \E r \in Req : SrvJoin(r)
  \/ \E r \in Req : SrvAbandon(r)

\* The administrative paths of both programs: any interleaving of the
\* backend's handlers with up to MaxLoaders load requests in flight, and of the
\* server's load_model and unload_model.
Next ==
  \/ program = "backend" /\ LedgerNext
  \/ program = "server" /\ SrvAdminNext

Spec == Init /\ [][Next]_vars

\* The backend's administrative requests handled one after another: a request
\* is taken only when the previous load has returned.
SeqNext ==
  \/ \E name \in Names : LoadStart(1, name)
  \/ LoadProbeFail(1)
  \/ LoadAdmit(1)
  \/ LoadFinishOk(1)
  \/ LoadFinishErr(1)
  \/ \E name \in Names : unload_model_handler(1, name)
  \/ \E name \in Names : set_model(1, name)

SeqSpec == InitBackend /\ [][SeqNext]_vars

\* GET /models from a second client, at any moment of the first client's
\* requests: between its requests, and while a load of it is probing or
\* loading.
ListNext ==
  \/ SeqNext
  \/ list_models(2)

ListSpec == InitBackend /\ [][ListNext]_vars

\* Generation requests, while one client sends administrative requests one
\* after another, for the names of GenNames.  With the default limit the two models of
\* GenNames do not fit together, so a load of one evicts the other and the
\* iteration order of the map decides nothing: GenInit fixes it.
GenNames == {"mistral", "llama3", "unknown"}

AdminNext ==
  \/ \E name \in GenNames : LoadStart(1, name)
  \/ LoadProbeFail(1)
  \/ LoadAdmit(1)
  \/ LoadFinishOk(1)
  \/ LoadFinishErr(1)
  \/ \E name \in GenNames : unload_model_handler(1, name)
  \/ \E name \in GenNames : set_model(1, name)

GenInit == Init /\ iter_order = <<"phi", "mistral", "llama3">>

GenSpecNext ==
  \/ program = "backend" /\ AdminNext
  \/ program = "backend" /\ GenNext
  \/ program = "server" /\ SrvAdminNext
  \/ program = "server" /\ SrvGenNext

GenSpec == GenInit /\ [][GenSpecNext]_vars

\* The runtime schedules every task that can run: a handler that can take a
\* permit or pass its next await does so, a blocking worker that can take its
\* mutex does so, the engine call makes progress (max_tokens bounds it) and a
\* resolved JoinHandle is observed.  Arrivals, disconnects and admin requests
\* are the clients' choice and get no fairness.
WorkerProgress(r) ==
  \/ WorkerFail(r)
  \/ \E emit \in BOOLEAN, stop \in BOOLEAN : WorkerStep(r, emit, stop)

GenFairness ==
  \A r \in Req :
    /\ WF_vars(acquire(r))
    /\ WF_vars(ReadActive(r))
    /\ WF_vars(Resolve(r))
    /\ WF_vars(WorkerLock(r))
    /\ WF_vars(WorkerProgress(r))
    /\ WF_vars(Join(r))

\* The backend alone, on the default budget, under the scheduling above.
FairGenInit == GenInit /\ program = "backend" /\ vram_limit = DefaultVramMB

\* One model is loaded, unloaded and selected while requests run.
FairName == "mistral"

FairAdminNext ==
  \/ LoadStart(1, FairName)
  \/ LoadProbeFail(1)
  \/ LoadAdmit(1)
  \/ LoadFinishOk(1)
  \/ LoadFinishErr(1)
  \/ unload_model_handler(1, FairName)
  \/ set_model(1, FairName)

FairGenNext == FairAdminNext \/ GenNext

FairGenSpec == FairGenInit /\ [][FairGenNext]_vars /\ GenFairness

\* The server keeps accepting requests: a client whose request is over, and
\* whose worker is no longer running, sends another one.
Recycle(r) ==
  /\ req[r].pc = "done"
  /\ req[r].wpc \notin {"spawned", "running"}
  /\ req' = [req EXCEPT ![r] = IdleReq]
  /\ UNCHANGED <<env, srv, models, model_sizes, active_model,
                 semaphore, lock_holder, poisoned, loader>>

\* The backend under a stream of requests that never ends.  A handler future
\* is polled as soon as the request arrives: its acquire either returns the
\* permit or joins the semaphore's queue.
QueueSpec ==
  /\ FairGenInit
  /\ [][FairGenNext \/ \E r \in Req : Recycle(r)]_vars
  /\ GenFairness
  /\ \A r \in Req : WF_vars(Enqueue(r) \/ acquire(r))

(***************************************************************************)
(* One generation request followed through run_inference (infer.rs) and    *)
(* the worker closures of infer_handler and infer_stream_handler.          *)
(* A decoded text is a sequence of characters; String::len() and the       *)
(* slice current_text[prev_text_len..] count bytes.                        *)
(***************************************************************************)
\* "x": one byte; "U": a character of two bytes; "?": U+FFFD (three bytes),
\* which the tokenizer's decoder puts for a byte sequence that is not yet a
\* complete character.
Chars == {"x", "U", "?"}
Width(c) == IF c = "x" THEN 1 ELSE IF c = "U" THEN 2 ELSE 3

\* decode_ids of the prompt's tokens (special tokens are skipped).
initial_texts(prompt_len) == IF prompt_len = 0 THEN {<<>>} ELSE {<<>>, <<"x">>}

\* decode_ids once one more token is appended: the text grows by a piece
\* (nothing for a skipped special token), or the token completes the
\* character whose first bytes were decoded as U+FFFD.
decode_next(text) ==
  {text \o piece : piece \in {<<>>, <<"x">>, <<"U">>, <<"?">>}}
    \cup (IF text # <<>> /\ text[Len(text)] = "?"
          THEN {SubSeq(text, 1, Len(text) - 1) \o <<"U">>}
          ELSE {})

Tokens == {"tok", "stop"}                 \* "stop": a token of the stop set

\* String::len(): the number of bytes.
RECURSIVE len(_)
len(text) ==
  IF text = <<>> THEN 0 ELSE Width(Head(text)) + len(Tail(text))

is_char_boundary(text, at) == \E k \in 0..Len(text) : len(SubSeq(text, 1, k)) = at

\* &text[at..] for a byte offset on a character boundary.
slice_from(text, at) ==
  LET k == CHOOSE n \in 0..Len(text) : len(SubSeq(text, 1, n)) = at
  IN SubSeq(text, k + 1, Len(text))

\* The Arc<StdMutex<LoadedModel>> the session's worker owns.
session_instance == <<session.active, session.inst>>

\* The request has arrived: its parameters, and the prompt's token count.
NewSession(kind, prompt_len, max_tokens) ==
  [NoSession EXCEPT !.caller = kind, !.stage = "wait", !.connected = TRUE,
                    !.prompt_len = prompt_len, !.max_new_tokens = max_tokens]

\* mpsc Sender::send / blocking_send: delivered while the receiver exists.
send(events, connected, msg) == IF connected THEN Append(events, msg) ELSE events

ledger == <<program, vram_limit, iter_order, srv, models, model_sizes,
            active_model, loader, req, channel, task>>

\* Lines 327 / 373: the permit.
SessAcquire ==
  /\ session.stage = "wait"
  /\ semaphore > 0
  /\ semaphore' = semaphore - 1
  /\ session' = [session EXCEPT !.stage = "ticket", !.permit = TRUE]
  /\ UNCHANGED <<ledger, lock_holder, poisoned>>

\* Lines 329-332 / 374-383: the active model; the stream task sends a plain
\* message and returns.
SessReadActive ==
  /\ session.stage = "ticket"
  /\ IF active_model = NoModel
     THEN /\ session' = [session EXCEPT
               !.stage = "ended", !.permit = FALSE,
               !.response = IF session.caller = "infer" THEN "error" ELSE "none",
               !.events = IF session.caller = "stream"
                          THEN send(@, session.connected, "Active model not selected.")
                          ELSE @]
          /\ semaphore' = semaphore + 1
     ELSE /\ session' = [session EXCEPT !.stage = "resolved", !.active = active_model]
          /\ UNCHANGED semaphore
  /\ UNCHANGED <<ledger, lock_holder, poisoned>>

\* Lines 333-349 / 384-407: the instance; spawn_blocking.
SessResolve ==
  /\ session.stage = "resolved"
  /\ IF models[session.active] = NoInst
     THEN /\ session' = [session EXCEPT
               !.stage = "ended", !.permit = FALSE,
               !.response = IF session.caller = "infer" THEN "error" ELSE "none",
               !.events = IF session.caller = "stream"
                          THEN send(@, session.connected, "Model not found or not loaded.")
                          ELSE @]
          /\ semaphore' = semaphore + 1
     ELSE /\ session' = [session EXCEPT !.stage = "spawned",
                                        !.inst = models[session.active]]
          /\ UNCHANGED semaphore
  /\ UNCHANGED <<ledger, lock_holder, poisoned>>

\* Mutant: the control line names a fixed model.
model_line_fixed(name) == "[MODEL: phi]"

\* main.rs 408: format!("[MODEL: {}]", active).
model_line(name) ==
  [m \in Models |-> IF m = "phi" THEN "[MODEL: phi]"
                    ELSE IF m = "mistral" THEN "[MODEL: mistral]"
                    ELSE "[MODEL: llama3]"][name]

\* Lines 350 / 408-411: the stream worker sends the [MODEL: ..] line, then the
\* worker takes the instance's mutex and calls run_inference.
SessWorkerStart ==
  /\ session.stage = "spawned"
  /\ lock_holder[session_instance] = NoReq
  /\ lock_holder' = [lock_holder EXCEPT ![session_instance] = 1]
  /\ session' = [session EXCEPT
       !.stage = "encode",
       !.events = IF session.caller = "stream"
                  THEN send(@, session.connected, model_line(session.active))
                  ELSE @]
  /\ UNCHANGED <<ledger, semaphore, poisoned>>

\* run_inference returns `how` ("ok" or "err"): the worker closure goes on.
Returned(q, how) == [q EXCEPT !.stage = "tail", !.result = how]

\* A panic inside run_inference: the closure ends by unwinding, the guard is
\* dropped on the way and the mutex is poisoned.
SessPanic(q) ==
  /\ session' = [q EXCEPT !.stage = "join", !.result = "panic"]
  /\ lock_holder' = [lock_holder EXCEPT ![session_instance] = NoReq]
  /\ poisoned' = poisoned \cup {session_instance}

\* infer.rs 68-94: the defaults, encode_prompt, the initial decode and the
\* baseline prev_text_len; a loop of zero iterations returns Ok at once.
SessEncode(enc_ok, dec_ok, text) ==
  /\ session.stage = "encode"
  /\ session' =
       IF ~enc_ok \/ ~dec_ok
       THEN Returned(session, "err")
       ELSE LET q == [session EXCEPT !.initial_text = text, !.current_text = text,
                                     !.prev_text_len = len(text)]
            IN IF session.max_new_tokens = 0
               THEN Returned(q, "ok")
               ELSE [q EXCEPT !.stage = "loop"]
  /\ UNCHANGED <<ledger, semaphore, lock_holder, poisoned>>

\* Mutant: every step presents the whole running sequence again.
context_size_always_full(index, input_len) == input_len

\* infer.rs 101 / inference.rs 206: the number of tokens a step presents to
\* the engine, the whole sequence at step 0 and one token later.
context_size(index, input_len) == IF index > 0 THEN 1 ELSE input_len

\* Mutant: the loop has no iteration limit.
loop_ends_at_stop_only(next_token, index, max_new_tokens) == next_token = "stop"

\* Mutant: the loop runs to max_tokens whatever token is sampled.
loop_ends_at_max_only(next_token, index, max_new_tokens) ==
  index + 1 = max_new_tokens

\* infer.rs 97, 154-157: the iteration is the last one when the token is a
\* stop token (break) or the range 0..max_new_tokens is exhausted.
loop_ends(next_token, index, max_new_tokens) ==
  next_token = "stop" \/ index + 1 = max_new_tokens

\* Mutant: the callback ignores the result of the send.
callback_ignores_send_error(send_failed) == FALSE

\* main.rs 421-424: the stream callback panics when blocking_send returns Err.
callback_panics(send_failed) == send_failed

\* infer.rs 97-158: one iteration of the loop.  `zero` is what a context of
\* zero tokens leads to: the debug assertion, an engine error, or a forward
\* pass that goes through.
SessStep(zero, fwd_ok, next_token, dec_ok, text) ==
  /\ session.stage = "loop"
  /\ LET input_len == session.prompt_len + Len(session.generated)
         context == context_size(session.index, input_len)
         start_at == input_len - context
         called == [session EXCEPT !.calls = Append(@, <<context, start_at>>)]
         pushed == [called EXCEPT !.generated = Append(@, next_token)]
         decoded == [pushed EXCEPT !.current_text = text]
         grows == len(text) > session.prev_text_len
         emits == [decoded EXCEPT
                     !.emitted = @ \o slice_from(text, session.prev_text_len),
                     !.prev_text_len = len(text),
                     !.events = IF session.caller = "stream"
                                THEN Append(@, "text") ELSE @]
         send_failed == session.caller = "stream" /\ ~session.connected
         after == IF ~grows THEN decoded
                  ELSE IF send_failed
                  THEN [decoded EXCEPT !.emit_failed = TRUE,
                                       !.prev_text_len = len(text)]
                  ELSE emits
     IN IF context = 0 /\ zero = "assert"
        THEN SessPanic(session)
        ELSE IF (context = 0 /\ zero = "err") \/ ~fwd_ok
        THEN /\ session' = Returned(called, "err")
             /\ UNCHANGED <<lock_holder, poisoned>>
        ELSE IF ~dec_ok
        THEN /\ session' = Returned(pushed, "err")
             /\ UNCHANGED <<lock_holder, poisoned>>
        ELSE IF grows /\ ~is_char_boundary(text, session.prev_text_len)
        THEN SessPanic(decoded)
        ELSE IF grows /\ callback_panics(send_failed)
        THEN SessPanic([decoded EXCEPT !.emit_failed = TRUE])
        ELSE /\ session' =
                  IF loop_ends(next_token, session.index, session.max_new_tokens)
                  THEN Returned(after, "ok")
                  ELSE [after EXCEPT !.index = @ + 1]
             /\ UNCHANGED <<lock_holder, poisoned>>
  /\ UNCHANGED <<ledger, semaphore>>

\* main.rs 351-360 / 427-432: the rest of the worker closure.  The stream
\* worker sends [ERROR] after an Err and [DONE] in every case.
SessTail ==
  /\ session.stage = "tail"
  /\ session' = [session EXCEPT
       !.stage = "join",
       !.events = IF session.caller = "stream"
                  THEN send(IF session.result = "err"
                            THEN send(@, session.connected, "[ERROR]") ELSE @,
                            session.connected, "[DONE]")
                  ELSE @]
  /\ lock_holder' = [lock_holder EXCEPT ![session_instance] = NoReq]
  /\ UNCHANGED <<ledger, semaphore, poisoned>>

\* main.rs 361-363 / 433-442: the JoinHandle resolves.
SessJoin ==
  /\ session.stage = "join"
  /\ session' = [session EXCEPT
       !.stage = "ended", !.permit = FALSE,
       !.response = IF session.caller = "stream" THEN "none"
                    ELSE IF session.result = "panic" THEN "panic" ELSE "ok"]
  /\ semaphore' = semaphore + 1
  /\ UNCHANGED <<ledger, lock_holder, poisoned>>

\* How the session ended for its handler: the stream task's match on the
\* JoinHandle (main.rs 433-442) takes a panic of the worker for a stop by the
\* user; an Err of run_inference or of generate_blocking is a failure.
terminal_state(q) ==
  IF q.result = "panic" THEN "Cancelled"
  ELSE IF q.result = "err" THEN "Failed"
  ELSE "Completed"

\* The consumer of the stream goes away: the receiver is dropped.
SessDisconnect ==
  /\ session.caller = "stream"
  /\ session.connected
  /\ session.stage # "ended"
  /\ session' = [session EXCEPT !.connected = FALSE]
  /\ UNCHANGED <<ledger, semaphore, lock_holder, poisoned>>

SessModel == "mistral"

\* An unload request that races with the session.
SessUnload == unload_model_handler(2, SessModel)

\* server api::inference (api.rs 152-189): is_loaded, then generate() makes the
\* channel and spawns the blocking worker.
SrvSessStart ==
  /\ session.stage = "srv_wait"
  /\ slots_lock = NoReq
  /\ session' = IF SessModel \in slots
                THEN [session EXCEPT !.stage = "srv_spawned", !.active = SessModel]
                ELSE [session EXCEPT !.stage = "ended", !.response = "error"]
  /\ UNCHANGED <<program, vram_limit, iter_order, channel, task, srv, backend, req>>

\* generate_blocking (inference.rs 173-178): get_model, the lock on the slot
\* map, get_mut.
SrvSessLock ==
  /\ session.stage = "srv_spawned"
  /\ slots_lock = NoReq
  /\ IF session.active \in slots
     THEN /\ session' = [session EXCEPT !.stage = "srv_encode"]
          /\ slots_lock' = 1
     ELSE /\ session' = [session EXCEPT !.stage = "srv_join", !.result = "err"]
          /\ UNCHANGED slots_lock
  /\ UNCHANGED <<program, vram_limit, iter_order, channel, task, slots, srv_res, backend, req>>

\* generate_blocking returns `how`; the trailing send of Done (inference.rs
\* 240-242) comes first when it returns Ok.
SrvReturned(q, how) ==
  [q EXCEPT !.stage = "srv_join", !.result = how,
            !.events = IF how = "ok" THEN send(@, q.connected, "Done") ELSE @]

\* inference.rs 184-203: the prompt is encoded.
SrvSessEncode(enc_ok) ==
  /\ session.stage = "srv_encode"
  /\ IF ~enc_ok \/ session.max_new_tokens = 0
     THEN /\ session' = SrvReturned(session, IF enc_ok THEN "ok" ELSE "err")
          /\ slots_lock' = NoReq
     ELSE /\ session' = [session EXCEPT !.stage = "srv_loop"]
          /\ UNCHANGED slots_lock
  /\ UNCHANGED <<program, vram_limit, iter_order, channel, task, slots, srv_res, backend, req>>

\* inference.rs 204-237: one iteration of the loop.
SrvSessStep(zero, fwd_ok, next_token, dec_ok) ==
  /\ session.stage = "srv_loop"
  /\ LET input_len == session.prompt_len + Len(session.generated)
         context == context_size(session.index, input_len)
         start_pos == input_len - context
         called == [session EXCEPT !.calls = Append(@, <<context, start_pos>>)]
         pushed == [called EXCEPT !.generated = Append(@, next_token)]
         sent == [pushed EXCEPT !.events = Append(@, "Token")]
         after == IF dec_ok THEN sent ELSE pushed
     IN IF (context = 0 /\ zero = "err") \/ ~fwd_ok
        THEN /\ session' = SrvReturned(called, "err")
             /\ slots_lock' = NoReq
        ELSE IF next_token = "stop"
        THEN /\ session' = SrvReturned(
                  [called EXCEPT !.events = send(@, session.connected, "Done")], "ok")
             /\ slots_lock' = NoReq
        ELSE IF dec_ok /\ ~session.connected
        THEN /\ session' = SrvReturned([pushed EXCEPT !.emit_failed = TRUE], "ok")
             /\ slots_lock' = NoReq
        ELSE IF session.index + 1 = session.max_new_tokens
        THEN /\ session' = SrvReturned(after, "ok")
             /\ slots_lock' = NoReq
        ELSE /\ session' = [after EXCEPT !.index = @ + 1]
             /\ UNCHANGED slots_lock
  /\ UNCHANGED <<program, vram_limit, iter_order, channel, task, slots, srv_res, backend, req>>

\* generate (inference.rs 44-67): the worker's handle resolves; `??` returns
\* its error, otherwise the messages are collected up to the first Done.
SrvSessJoin ==
  /\ session.stage = "srv_join"
  /\ session' = [session EXCEPT
       !.stage = "ended",
       !.response = IF ~session.connected THEN "none"
                    ELSE IF session.result = "err" THEN "error" ELSE "ok"]
  /\ UNCHANGED <<program, vram_limit, iter_order, channel, task, srv, backend, req>>

\* The client of POST /inference goes away: the handler future is dropped and
\* the receiver with it.
SrvSessDisconnect ==
  /\ session.caller = "server"
  /\ session.connected
  /\ session.stage \notin {"srv_wait", "ended"}
  /\ session' = [session EXCEPT !.connected = FALSE]
  /\ UNCHANGED <<ledger, semaphore, lock_holder, poisoned>>

\* An unload request that races with the session.
SrvSessUnload ==
  /\ SessModel \in slots
  /\ unload_model(SessModel)

SessBackendNext ==
  \/ SessAcquire
  \/ SessReadActive
  \/ SessResolve
  \/ SessWorkerStart
  \/ \E enc_ok \in BOOLEAN, dec_ok \in BOOLEAN,
        text \in initial_texts(session.prompt_len) :
       SessEncode(enc_ok, dec_ok, text)
  \/ \E zero \in {"assert", "err", "go"}, fwd_ok \in BOOLEAN, next_token \in Tokens,
        dec_ok \in BOOLEAN, text \in decode_next(session.current_text) :
       SessStep(zero, fwd_ok, next_token, dec_ok, text)
  \/ SessTail
  \/ SessJoin
  \/ SessDisconnect
  \/ SessUnload

SessServerNext ==
  \/ SrvSessStart
  \/ SrvSessLock
  \/ \E enc_ok \in BOOLEAN : SrvSessEncode(enc_ok)
  \/ \E zero \in {"err", "go"}, fwd_ok \in BOOLEAN, next_token \in Tokens,
        dec_ok \in BOOLEAN :
       SrvSessStep(zero, fwd_ok, next_token, dec_ok)
  \/ SrvSessJoin
  \/ SrvSessDisconnect
  \/ SrvSessUnload

SessNext ==
  \/ program = "backend" /\ SessBackendNext
  \/ program = "server" /\ SessServerNext

\* The backend with SessModel loaded and active, and one request arrived.
SessInitBackend ==
  /\ program = "backend"
  /\ channel = NoChannel
  /\ task = NoTasks
  /\ vram_limit = DefaultVramMB
  /\ iter_order = <<"phi", "mistral", "llama3">>
  /\ models = [m \in Models |-> IF m = SessModel THEN 1 ELSE NoInst]
  /\ model_sizes = [m \in Models |-> IF m = SessModel THEN get_model_file_info(m) ELSE 0]
  /\ active_model = SessModel
  /\ semaphore = SemaphorePermits
  /\ lock_holder = [i \in Instances |-> NoReq]
  /\ poisoned = {}
  /\ loader = [l \in Loaders |-> IdleLoader]
  /\ req = [r \in Req |-> IdleReq]
  /\ ServerState
  /\ \E kind \in Kinds, prompt_len \in 0..MaxPrompt, max_tokens \in 0..MaxTokens :
       session = NewSession(kind, prompt_len, max_tokens)

\* The server with SessModel loaded, and one POST /inference arrived.
SessInitServer ==
  /\ program = "server"
  /\ channel = NoChannel
  /\ task = NoTasks
  /\ vram_limit = DefaultVramMB
  /\ iter_order = <<"phi", "mistral", "llama3">>
  /\ BackendState
  /\ slots = {SessModel}
  /\ slots_lock = NoReq
  /\ srv_res = "loaded"
  /\ \E prompt_len \in 0..MaxPrompt, max_tokens \in 0..MaxTokens :
       session = [NewSession("server", prompt_len, max_tokens)
                    EXCEPT !.stage = "srv_wait"]

SessInit == SessInitBackend \/ SessInitServer

SessSpec == SessInit /\ [][SessNext]_vars

\* A blocking worker that has been started runs to the end of its closure:
\* the tokenizer and the engine return from every call, and a send on the
\* channel succeeds or fails.
SessWorkerProgress ==
  \/ \E enc_ok \in BOOLEAN, dec_ok \in BOOLEAN,
        text \in initial_texts(session.prompt_len) :
       SessEncode(enc_ok, dec_ok, text)
  \/ \E zero \in {"assert", "err", "go"}, fwd_ok \in BOOLEAN, next_token \in Tokens,
        dec_ok \in BOOLEAN, text \in decode_next(session.current_text) :
       SessStep(zero, fwd_ok, next_token, dec_ok, text)

SrvSessWorkerProgress ==
  \/ \E enc_ok \in BOOLEAN : SrvSessEncode(enc_ok)
  \/ \E zero \in {"err", "go"}, fwd_ok \in BOOLEAN, next_token \in Tokens,
        dec_ok \in BOOLEAN :
       SrvSessStep(zero, fwd_ok, next_token, dec_ok)

FairSessSpec ==
  /\ SessSpec
  /\ WF_vars(program = "backend" /\ SessWorkerProgress)
  /\ WF_vars(program = "server" /\ SrvSessWorkerProgress)

(***************************************************************************)
(* The channel between a stream worker and the SSE response:               *)
(* mpsc::channel(100) in infer_stream_handler (main.rs 370) and in the      *)
(* server's inference_stream (api.rs 214).  The worker sends with           *)
(* blocking_send; the response body is a ReceiverStream over the receiver.  *)
(* Messages are counted, not told apart.                                    *)
(***************************************************************************)
ChannelCapacity == 100

\* Mutant: the channel takes a message whatever it holds already.
has_room_always(queue) == TRUE

\* A bounded mpsc channel takes a message while it holds fewer than its
\* capacity; blocking_send waits otherwise.
has_room(queue) == queue < ChannelCapacity

\* blocking_send returns Ok: the worker's model line or a delta of the
\* callback (main.rs 408, 421; inference.rs 231) is in the channel.
ChanSend ==
  /\ channel.producer = "sending"
  /\ channel.sent < MaxMessages - 1
  /\ channel.rx
  /\ has_room(channel.queue)
  /\ channel' = [channel EXCEPT !.queue = @ + 1, !.sent = @ + 1]
  /\ UNCHANGED <<program, vram_limit, iter_order, session, task, srv, backend, req>>

\* The last message of the worker, [DONE] / StreamToken::Done (main.rs 431;
\* inference.rs 221, 241): the closure ends and its sender is dropped.
ChanSendDone ==
  /\ channel.producer = "sending"
  /\ channel.rx
  /\ has_room(channel.queue)
  /\ channel' = [channel EXCEPT !.queue = @ + 1, !.sent = @ + 1,
                                !.producer = "ended"]
  /\ UNCHANGED <<program, vram_limit, iter_order, session, task, srv, backend, req>>

\* blocking_send returns Err, the receiver is gone.  The backend's callback
\* panics (main.rs 422-424) and its control lines ignore the error; the
\* server's loop breaks (inference.rs 231-234).
ChanSendFails(how) ==
  /\ channel.producer = "sending"
  /\ ~channel.rx
  /\ program = "server" => how = "ended"
  /\ channel' = [channel EXCEPT !.producer = how]
  /\ UNCHANGED <<program, vram_limit, iter_order, session, task, srv, backend, req>>

\* The response stream polls the receiver and gets a message.
ChanRecv ==
  /\ channel.rx
  /\ channel.queue > 0
  /\ channel' = [channel EXCEPT !.queue = @ - 1]
  /\ UNCHANGED <<program, vram_limit, iter_order, session, task, srv, backend, req>>

\* The client disconnects: the response, the stream and the receiver are
\* dropped, and the messages still in the channel with them.
ChanDisconnect ==
  /\ channel.rx
  /\ channel' = [channel EXCEPT !.rx = FALSE, !.queue = 0]
  /\ UNCHANGED <<program, vram_limit, iter_order, session, task, srv, backend, req>>

ChanNext ==
  \/ ChanSend
  \/ ChanSendDone
  \/ \E how \in {"ended", "panicked"} : ChanSendFails(how)
  \/ ChanRecv
  \/ ChanDisconnect

\* A stream request whose worker has been spawned with its clone of the
\* sender, in either program.
ChanInit ==
  /\ program \in {"backend", "server"}
  /\ vram_limit = DefaultVramMB
  /\ iter_order = <<"phi", "mistral", "llama3">>
  /\ session = NoSession
  /\ BackendState
  /\ ServerState
  /\ channel = [producer |-> "sending", rx |-> TRUE, queue |-> 0, sent |-> 0]
  /\ task = NoTasks

ChanSpec == ChanInit /\ [][ChanNext]_vars

\* The channel of the server's InferenceEngine::generate (inference.rs 35-68):
\* generate awaits the worker's JoinHandle first and reads the receiver only
\* after it (52).
GenerateRecv ==
  /\ channel.producer # "sending"
  /\ channel.rx
  /\ channel.queue > 0
  /\ channel' = [channel EXCEPT !.queue = @ - 1]
  /\ UNCHANGED <<program, vram_limit, iter_order, session, task, srv, backend, req>>

\* A POST /inference whose worker has been spawned.
GenerateInit ==
  /\ program = "server"
  /\ vram_limit = DefaultVramMB
  /\ iter_order = <<"phi", "mistral", "llama3">>
  /\ session = NoSession
  /\ BackendState
  /\ ServerState
  /\ channel = [producer |-> "sending", rx |-> TRUE, queue |-> 0, sent |-> 0]
  /\ task = NoTasks

\* The worker sends whenever blocking_send can return, and generate reads
\* whenever it has got to its loop; the client may stay connected for ever.
GenerateSpec ==
  /\ GenerateInit
  /\ [][\/ ChanSend
        \/ ChanSendDone
        \/ ChanSendFails("ended")
        \/ GenerateRecv
        \/ ChanDisconnect]_vars
  /\ WF_vars(ChanSend \/ ChanSendDone \/ ChanSendFails("ended"))
  /\ WF_vars(GenerateRecv)

(***************************************************************************)
(* The backend's handlers as the locks they take and give back, in the      *)
(* order of the code: the three tokio mutexes of AppState, the permit of    *)
(* the semaphore and the std mutex of an instance.  Which path a handler    *)
(* takes depends on the ledger's contents; here every path is open to every *)
(* invocation, and all workers lock the same instance.                      *)
(***************************************************************************)
\* The order in which the handlers take the ledger's locks.
lock_rank(x) ==
  CASE x = "models" -> 1
    [] x = "model_sizes" -> 2
    [] x = "active_model" -> 3

take(x) == <<"lock", x>>
give(x) == <<"unlock", x>>

\* load_model_handler (main.rs 178-289).
load_model_handler_locks(path) ==
  LET await == <<"await", "spawn_blocking">>
      check == <<take("models")>>
      probe == check \o <<give("models"), await>>
      admit == probe \o <<take("models"), take("model_sizes")>>
      load == admit \o <<give("models"), give("model_sizes"), await>>
  IN CASE path = "not_found" -> <<>>
       [] path = "already_loaded" ->
            check \o <<take("active_model"), give("active_model"), give("models")>>
       [] path = "probe_failed" -> probe
       [] path = "too_large" -> admit \o <<give("model_sizes"), give("models")>>
       [] path = "loaded" ->
            load \o <<take("models"), take("active_model"),
                      give("active_model"), give("models")>>
       [] path = "load_failed" -> load

\* list_models (main.rs 293-318).
list_models_locks(path) ==
  <<take("models"), take("model_sizes"), take("active_model"),
    give("active_model"), give("model_sizes"), give("models")>>

\* Mutant: set_model takes the active pointer's lock before the map's.
set_model_locks_active_first(path) ==
  IF path = "switched"
  THEN <<take("active_model"), take("models"), give("models"), give("active_model")>>
  ELSE <<take("models"), give("models")>>

\* set_model (main.rs 452-466).
set_model_locks(path) ==
  IF path = "switched"
  THEN <<take("models"), take("active_model"), give("active_model"), give("models")>>
  ELSE <<take("models"), give("models")>>

\* unload_model_handler (main.rs 470-486).
unload_model_handler_locks(path) ==
  IF path = "unloaded"
  THEN <<take("models"), take("active_model"), give("active_model"), give("models")>>
  ELSE <<take("models"), give("models")>>

\* infer_handler (main.rs 322-364) and the task of infer_stream_handler
\* (368-448): the permit, the active name, the instance, then the worker
\* under the instance's mutex while the handler awaits it.  "abandoned": the
\* handler future of /infer is dropped while the worker runs, and the permit
\* with it.
infer_locks(path) ==
  LET read == <<take("permit"), take("active_model"), give("active_model")>>
      resolve == read \o <<take("models")>>
      spawn == resolve \o <<give("models")>>
  IN CASE path = "no_active" -> read \o <<give("permit")>>
       [] path = "not_loaded" -> resolve \o <<give("models"), give("permit")>>
       [] path = "generated" ->
            spawn \o <<take("instance"), give("instance"), give("permit")>>
       [] path = "abandoned" ->
            spawn \o <<give("permit"), take("instance"), give("instance")>>

Handlers ==
  ({"load_model_handler"} \X {"not_found", "already_loaded", "probe_failed",
                              "too_large", "loaded", "load_failed"})
  \cup ({"list_models"} \X {"listed"})
  \cup ({"set_model"} \X {"switched", "refused"})
  \cup ({"unload_model_handler"} \X {"unloaded", "refused"})
  \cup ({"infer_handler"} \X {"no_active", "not_loaded", "generated", "abandoned"})
  \cup ({"infer_stream_handler"} \X {"no_active", "not_loaded", "generated"})

\* The steps of one invocation.
steps(tk) ==
  CASE tk.handler = "load_model_handler" -> load_model_handler_locks(tk.path)
    [] tk.handler = "list_models" -> list_models_locks(tk.path)
    [] tk.handler = "set_model" -> set_model_locks(tk.path)
    [] tk.handler = "unload_model_handler" -> unload_model_handler_locks(tk.path)
    [] tk.handler \in {"infer_handler", "infer_stream_handler"} -> infer_locks(tk.path)
    [] OTHER -> <<>>

\* The locks an invocation holds at its place: taken and not yet given back.
holds(tk) ==
  {x \in LedgerLocks \cup {"permit", "instance"} :
     \E i \in 1..(tk.at - 1) :
       /\ steps(tk)[i] = take(x)
       /\ \A j \in (i + 1)..(tk.at - 1) : steps(tk)[j] # give(x)}

\* The step an invocation is at; <<"end", "">> once it is through.
next_step(tk) ==
  IF tk.at \in DOMAIN steps(tk) THEN steps(tk)[tk.at] ELSE <<"end", "">>

\* The invocation at place i: back to NoTask when the handler has returned.
moved_to(tk, i) == IF i \in DOMAIN steps(tk) THEN [tk EXCEPT !.at = i] ELSE NoTask

\* The first place at or after the invocation's that is not a dropped guard.
after_drops(tk) ==
  CHOOSE j \in tk.at..(Len(steps(tk)) + 1) :
    /\ \A i \in tk.at..(j - 1) : steps(tk)[i][1] = "unlock"
    /\ j \in DOMAIN steps(tk) => steps(tk)[j][1] # "unlock"

\* A request arrives and its handler starts.
TaskStart(t, h) ==
  /\ task[t] = NoTask
  /\ task' = [task EXCEPT ![t] = [handler |-> h[1], path |-> h[2], at |-> 1]]
  /\ UNCHANGED <<program, vram_limit, iter_order, session, channel, srv, backend, req>>

\* lock().await / acquire().await / lock() returns: nobody holds the lock.
TaskLock(t) ==
  /\ next_step(task[t])[1] = "lock"
  /\ \A k \in Tasks : next_step(task[t])[2] \notin holds(task[k])
  /\ task' = [task EXCEPT ![t].at = @ + 1]
  /\ UNCHANGED <<program, vram_limit, iter_order, session, channel, srv, backend, req>>

\* Guards are dropped: one by a drop(), or all that are left by a return.
TaskUnlock(t) ==
  /\ next_step(task[t])[1] = "unlock"
  /\ task' = [task EXCEPT ![t] = moved_to(@, after_drops(@))]
  /\ UNCHANGED <<program, vram_limit, iter_order, session, channel, srv, backend, req>>

\* A spawn_blocking the handler awaits with no lock to take in it ends.
TaskAwait(t) ==
  /\ next_step(task[t])[1] = "await"
  /\ task' = [task EXCEPT ![t] = moved_to(@, @.at + 1)]
  /\ UNCHANGED <<program, vram_limit, iter_order, session, channel, srv, backend, req>>

\* The handler returns without having taken a lock.
TaskEnd(t) ==
  /\ task[t] # NoTask
  /\ next_step(task[t])[1] = "end"
  /\ task' = [task EXCEPT ![t] = NoTask]
  /\ UNCHANGED <<program, vram_limit, iter_order, session, channel, srv, backend, req>>

LockNext ==
  \/ \E t \in Tasks, h \in Handlers : TaskStart(t, h)
  \/ \E t \in Tasks : TaskLock(t)
  \/ \E t \in Tasks : TaskUnlock(t)
  \/ \E t \in Tasks : TaskAwait(t)
  \/ \E t \in Tasks : TaskEnd(t)

LockInit ==
  /\ program = "backend"
  /\ vram_limit = DefaultVramMB
  /\ iter_order = <<"phi", "mistral", "llama3">>
  /\ session = NoSession
  /\ channel = NoChannel
  /\ task = NoTasks
  /\ BackendState
  /\ ServerState

LockSpec == LockInit /\ [][LockNext]_vars

(***************************************************************************)
(* Properties.                                                             *)
(***************************************************************************)
NoLoadInFlight == \A l \in Loaders : loader[l].pc = "idle"

\* C1: when the backend handles load and unload requests one after another,
\* after each request has completed the recorded footprints of the models with
\* a present instance sum to at most vram_limit.
C1_BudgetAfterEachRequest == NoLoadInFlight => Usage <= vram_limit

\* Two models are loaded together after a completed load.
C1_Witness ==
  /\ NoLoadInFlight
  /\ loader[1].res = "loaded"
  /\ Cardinality(Loaded) = 2
  /\ Usage = get_model_file_info("phi") + get_model_file_info("mistral")

\* C2: under any interleaving of concurrent load requests the footprints of the
\* models with a present instance never sum to more than vram_limit.
C2_BudgetAtAllTimes == Usage <= vram_limit

\* C3: the active-model pointer is empty or names a model whose instance is
\* present.
C3_ActivePointerIntegrity ==
  active_model = NoModel \/ models[active_model] # NoInst

\* C9: a load request for a model whose instance is present answers
\* "already loaded" (ok) at once, leaves the map and the recorded sizes as they
\* were and sets the active pointer to the name; handled again in the state
\* it leaves, it changes nothing of the ledger.
C9_LoadOfLoadedModel ==
  [][\A l \in Loaders, name \in Models :
       (LoadStart(l, name) /\ models[name] # NoInst) =>
         /\ models' = models
         /\ model_sizes' = model_sizes
         /\ active_model' = name
         /\ loader'[l].pc = "idle"
         /\ loader'[l].res = "already_loaded"
         /\ (active_model = name => UNCHANGED <<models, model_sizes, active_model>>)]_vars

\* A load of an already loaded model has been answered while another model
\* is loaded too, and the pointer names one of them.
C9_Witness ==
  /\ \E l \in Loaders : loader[l].res = "already_loaded"
  /\ Cardinality(Loaded) = 2
  /\ active_model \in Loaded

\* C10: when the admission step of a load evicts and admits the load, the
\* recorded usage after the evictions plus the needed footprint fits the limit,
\* and no evicted model could have been kept: with any one of them still
\* counted it would not fit.  (The admission step that evicts and then returns
\* "too large" is C11's case.)
C10_MinimalEviction ==
  [][\A l \in Loaders :
       (LoadAdmit(l) /\ Loaded' # Loaded /\ loader'[l].pc = "loading") =>
         LET required_mb == get_model_file_info(loader[l].name)
         IN /\ Usage' + required_mb <= vram_limit
            /\ \A v \in Loaded \ Loaded' :
                 Usage' + model_sizes'[v] + required_mb > vram_limit]_vars

Running(r) == req[r].wpc = "running"

\* C4: in the backend no two generation workers execute run_inference at the
\* same time.
C4_OneGenerationAtATime ==
  program = "backend" => Cardinality({r \in Req : Running(r)}) <= 1

\* The lock a worker must hold while it calls the engine: the instance's mutex
\* in the backend, the mutex of the slot map in the server.
HoldsInstanceLock(r) ==
  IF program = "backend"
  THEN lock_holder[<<req[r].active, req[r].inst>>] = r
  ELSE slots_lock = r

SameInstance(r1, r2) ==
  /\ req[r1].active = req[r2].active
  /\ req[r1].inst = req[r2].inst

\* C5: a worker that is inside run_inference (backend) or inside
\* generate_blocking's session (server) holds the exclusive lock of its
\* instance, and no two such workers are on the same instance.
C5_InstanceLockExclusive ==
  /\ \A r \in Req : Running(r) => HoldsInstanceLock(r)
  /\ \A r1, r2 \in Req :
       (Running(r1) /\ Running(r2) /\ SameInstance(r1, r2)) => r1 = r2

\* A backend worker is inside run_inference while another worker, spawned for
\* the same instance, waits for its mutex.
C5_Witness ==
  /\ program = "backend"
  /\ \E r1, r2 \in Req :
       /\ Running(r1)
       /\ req[r2].wpc = "spawned"
       /\ SameInstance(r1, r2)

HoldsALock(r) == \E i \in Instances : lock_holder[i] = r

\* C6: once a stream has ended by its client's disconnect, its permit and its
\* instance lock are released and no other generation request fails on the
\* instance lock: a request that resolves a loaded model completes.
C6_CancellationRecovery ==
  \A r \in Req :
    (req[r].kind = "stream" /\ req[r].res = "cancelled") =>
      /\ ~req[r].permit
      /\ ~HoldsALock(r)
      /\ \A q \in Req \ {r} : req[q].res # "panic"

\* C7: no stream worker ends by a panic, no instance mutex is poisoned, and a
\* request whose session has ended holds no instance lock.
C7_LockValidAfterSession ==
  /\ \A r \in Req : req[r].kind = "stream" => req[r].wpc # "panicked"
  /\ poisoned = {}
  /\ \A r \in Req : (req[r].pc = "done" /\ ~WorkerAlive(req[r])) => ~HoldsALock(r)

\* No request is in flight: every handler has returned and every worker ended.
Quiescent == \A r \in Req : req[r].pc \in {"idle", "done"} /\ ~WorkerAlive(req[r])

\* C8: a handler that has returned holds no permit, a worker that has ended
\* holds no instance lock, and when no request is in flight the semaphore has
\* its one permit and no instance lock is held; every request that holds the
\* generation permit eventually holds it no more, and every worker that holds
\* an instance lock eventually holds it no more.
C8_EveryPathReleases ==
  /\ [](\A r \in Req : req[r].pc \in {"idle", "done"} => ~req[r].permit)
  /\ [](\A r \in Req : ~WorkerAlive(req[r]) => ~HoldsALock(r))
  /\ [](Quiescent =>
         (semaphore = SemaphorePermits /\ \A i \in Instances : lock_holder[i] = NoReq))
  /\ \A r \in Req : req[r].permit ~> ~req[r].permit
  /\ \A r \in Req : HoldsALock(r) ~> ~HoldsALock(r)

\* One request has ended by its client's disconnect and another has been
\* answered ok; nothing is in flight.
C8_Witness ==
  /\ Quiescent
  /\ \E r, q \in Req : req[r].res = "cancelled" /\ req[q].res = "ok"

\* C11: a load whose footprint alone exceeds the limit is rejected as too
\* large and leaves the loaded set and the active pointer as they were.
C11_TooLargeEvictsNothing ==
  [][\A l \in Loaders :
       (LoadAdmit(l) /\ get_model_file_info(loader[l].name) > vram_limit) =>
         /\ loader'[l].res = "too_large"
         /\ models' = models
         /\ active_model' = active_model]_vars

\* C12: when a load has to evict, the victim the loop picks is the same under
\* every iteration order of the map: it depends on the ledger's state alone.
C12_DeterministicVictims ==
  \A l \in Loaders :
    (/\ loader[l].pc = "probing"
     /\ Usage + get_model_file_info(loader[l].name) > vram_limit) =>
      \A order \in Perms(Models) :
        first_loaded_in(order, models) = first_loaded(models)

\* C13: when run_inference has returned Ok for a prompt of at least one token, the deltas it passed to the
\* callback, concatenated, are the final decoded text from the end of the
\* decoded prompt on.
C13_DeltasReproduceSuffix ==
  (session.result = "ok" /\ session.prompt_len > 0) =>
    /\ is_char_boundary(session.current_text, len(session.initial_text))
    /\ session.emitted = slice_from(session.current_text, len(session.initial_text))

C15_GenerationTerminates ==
  /\ [](Len(session.calls) <= session.max_new_tokens)
  /\ (session.stage \in {"encode", "srv_encode"}) ~> (session.result # "none")

\* A generation has used all of its max_tokens iterations and returned Ok.
C15_Witness ==
  /\ session.max_new_tokens = MaxTokens
  /\ Len(session.calls) = MaxTokens
  /\ session.result = "ok"

\* C16: once the emission of a delta has failed because the consumer is gone,
\* no further engine call is made, the loop is over, the session does not end
\* as a failure and no [ERROR] event is delivered; in the backend it ends as
\* Cancelled.
C16_FailedEmissionCancels ==
  /\ [][session.emit_failed => session.calls' = session.calls]_vars
  /\ [](session.emit_failed =>
          /\ session.stage \notin {"loop", "srv_loop"}
          /\ terminal_state(session) # "Failed"
          /\ \A i \in DOMAIN session.events : session.events[i] # "[ERROR]"
          /\ session.caller = "stream" => terminal_state(session) = "Cancelled")

\* A stream whose consumer went away after the first delta has ended at the
\* next emission.
C16_Witness ==
  /\ session.caller = "stream"
  /\ session.emit_failed
  /\ session.stage = "ended"
  /\ session.emitted # <<>>

ResolutionFailed(r) == req[r].res \in {"no_active", "not_loaded"}

\* C17: a request that finds the active pointer empty, or the model it names
\* without an instance, returns in that step with an error: no worker is
\* spawned for it, no instance lock is taken and its permit goes back to the
\* semaphore; it never has a worker or a lock afterwards.
C17_FailedResolutionReleases ==
  /\ [][\A r \in Req :
          (\/ ReadActive(r) /\ active_model = NoModel
           \/ Resolve(r) /\ models[req[r].active] = NoInst) =>
            /\ ResolutionFailed(r)'
            /\ req'[r].pc = "done"
            /\ req'[r].wpc = "none"
            /\ ~req'[r].permit
            /\ semaphore' = semaphore + 1
            /\ lock_holder' = lock_holder]_vars
  /\ [](\A r \in Req :
          ResolutionFailed(r) =>
            req[r].wpc = "none" /\ ~req[r].permit /\ ~HoldsALock(r))

\* One request found no active model and another found the active model
\* without an instance; the permit is back.
C17_Witness ==
  /\ \E r, q \in Req : req[r].res = "no_active" /\ req[q].res = "not_loaded"
  /\ semaphore = SemaphorePermits

\* C18: when the tokenizer or the engine has failed during a blocking
\* generation whose client is still there, the response is an error, and the
\* permit and the lock are released when it is returned.
C18_BlockingFailureIsAnError ==
  (/\ session.caller \in {"infer", "server"}
   /\ session.connected
   /\ session.result = "err"
   /\ session.stage = "ended") =>
    /\ session.response = "error"
    /\ semaphore = SemaphorePermits
    /\ \A i \in Instances : lock_holder[i] = NoReq
    /\ slots_lock = NoReq

Sentinels == {"[DONE]", "[ERROR]"}

\* C19: the events of a finished /infer_stream response whose consumer is
\* still connected contain exactly one terminal sentinel, and it is the last
\* event.
C19_OneTerminalSentinel ==
  (session.caller = "stream" /\ session.connected /\ session.stage = "ended") =>
    /\ Cardinality({i \in DOMAIN session.events : session.events[i] \in Sentinels}) = 1
    /\ session.events[Len(session.events)] \in Sentinels

ModelLines == {"[MODEL: phi]", "[MODEL: mistral]", "[MODEL: llama3]"}

\* C20 as stated: the first event of every /infer_stream response is a
\* [MODEL: ..] line.
C20_EveryResponseStartsWithModelLine ==
  (session.caller = "stream" /\ session.events # <<>>) =>
    session.events[1] \in ModelLines

\* C20, for the responses that have a generation worker: the first event
\* delivered is the [MODEL: ..] line with the name of the model whose instance
\* the worker locks, and no later event is such a line.
C20_ModelLineFirstWhenGenerating ==
  (session.caller = "stream" /\ session.inst # NoInst /\ session.events # <<>>) =>
    /\ session.active = SessModel
    /\ session.events[1] = "[MODEL: mistral]"
    /\ \A i \in DOMAIN session.events :
         i > 1 => session.events[i] \notin ModelLines

\* A stream has delivered the model line and then a delta.
C20_Witness ==
  /\ session.caller = "stream"
  /\ Len(session.events) >= 2
  /\ session.events[1] = "[MODEL: mistral]"
  /\ session.events[2] = "text"

\* C21: an unload of a model whose instance is present removes that instance
\* and no other, takes its recorded size out of the usage, clears the active
\* pointer when it named the model and leaves it alone otherwise; an unload of a
\* name without an instance, configured or not, is answered "not loaded" and
\* changes nothing.  The server's unload_model does the same on its slot map.
C21_Unload ==
  [][/\ \A l \in Loaders, name \in Names :
          unload_model_handler(l, name) =>
            IF name \in Models /\ models[name] # NoInst
            THEN /\ loader'[l].res = "unloaded"
                 /\ Loaded' = Loaded \ {name}
                 /\ \A m \in Models \ {name} : models'[m] = models[m]
                 /\ Usage' = Usage - model_sizes[name]
                 /\ active_model' = IF active_model = name THEN NoModel
                                    ELSE active_model
            ELSE /\ loader'[l].res = "not_loaded"
                 /\ UNCHANGED <<models, model_sizes, active_model>>
     /\ \A name \in Names :
          (program = "server" /\ unload_model(name)) =>
            IF name \in slots
            THEN srv_res' = "unloaded" /\ slots' = slots \ {name}
            ELSE srv_res' = "not_loaded" /\ slots' = slots]_vars

\* The active model has been unloaded while another model stays loaded.
C21_Witness ==
  /\ \E l \in Loaders : loader[l].res = "unloaded"
  /\ active_model = NoModel
  /\ Loaded # {}

\* C22: set_model makes a name the active one exactly when the name has a
\* present instance; for a configured name without an instance ("not loaded")
\* and for an unknown name ("not found") it fails, and the pointer and the map
\* are as they were.
C22_SetActive ==
  [][\A l \in Loaders, name \in Names :
       set_model(l, name) =>
         /\ models' = models
         /\ IF name \in Models /\ models[name] # NoInst
            THEN loader'[l].res = "switched" /\ active_model' = name
            ELSE /\ loader'[l].res = IF name \in Models THEN "not_loaded"
                                     ELSE "not_found"
                 /\ active_model' = active_model]_vars

\* Both outcomes at once: one client was refused, and the pointer was moved by
\* set_model to a model that is not the one loaded last.
C22_Witness ==
  /\ loader[1].res = "not_loaded"
  /\ loader[2].res = "switched"
  /\ active_model \in Loaded
  /\ Cardinality(Loaded) = 2

\* C23: GET /models writes nothing to the ledger, and the list it returns is
\* the ledger of the one state it ran in, also while a load of another client
\* is between its steps: each model's flag and size are the map's, the active
\* name is the pointer, and the usage it reports is the sum of the listed sizes
\* of the models it lists as loaded.
C23_ListIsOneState ==
  [][\A l \in Loaders :
       list_models(l) =>
         LET s == loader'[l].list[1]
         IN /\ UNCHANGED <<models, model_sizes, active_model>>
            /\ loader'[l].res = "listed"
            /\ \A m \in Models : /\ s.models[m].loaded = (models[m] # NoInst)
                                  /\ s.models[m].size_mb = model_sizes[m]
            /\ s.active = active_model
            /\ s.used = SumSizes([m \in Models |->
                                    IF s.models[m].loaded THEN 1 ELSE NoInst],
                                 [m \in Models |-> s.models[m].size_mb],
                                 Models)]_vars

\* A list was returned while a load is between admission and its end; it
\* shows one model loaded and the size recorded for the model being loaded.
C23_Witness ==
  /\ loader[2].res = "listed"
  /\ loader[1].pc = "loading"
  /\ LET s == loader[2].list[1]
     IN /\ s.used > 0
        /\ ~s.models[loader[1].name].loaded
        /\ s.models[loader[1].name].size_mb > 0
        /\ s.used < s.models["phi"].size_mb + s.models["mistral"].size_mb
                      + s.models["llama3"].size_mb

\* C25: while a load request of the backend is in its footprint probe or in
\* its device load it holds none of the ledger's locks, so another client's
\* list, unload and set_model are answered, and a generation request that has
\* its permit reads the active name and resolves its instance.
C25_NoLedgerLockDuringLoad ==
  program = "backend" =>
    \A l \in Loaders :
      loader[l].pc \in {"probing", "loading"} =>
        /\ \A lock \in LedgerLocks : lock \notin loader[l].held
        /\ \A k \in Loaders \ {l} :
             loader[k].pc = "idle" =>
               /\ ENABLED list_models(k)
               /\ \A name \in Names : /\ ENABLED unload_model_handler(k, name)
                                       /\ ENABLED set_model(k, name)
        /\ \A r \in Req : /\ req[r].pc = "ticket" => ENABLED ReadActive(r)
                          /\ req[r].pc = "resolved" => ENABLED Resolve(r)

\* A generation worker runs on one model while a load of another model is
\* between admission and its end.
C25_Witness ==
  /\ program = "backend"
  /\ loader[1].pc = "loading"
  /\ \E r \in Req : Running(r) /\ req[r].active # loader[1].name

\* C26: when the device load fails after admission, the request is answered
\* with an error and the requested model has no present instance.
C26_FailedLoadLeavesNoInstance ==
  [][\A l \in Loaders :
       LoadFinishErr(l) =>
         /\ loader'[l].res = "load_failed"
         /\ models'[loader[l].name] = NoInst]_vars

\* C27: the server's load_model for a name that has a slot already answers
\* success and leaves the slot map as it was.
C27_ServerLoadIsIdempotent ==
  [][\A name \in Names, ok \in BOOLEAN :
       (program = "server" /\ name \in slots /\ load_model(name, ok)) =>
         /\ srv_res' = "loaded"
         /\ slots' = slots]_vars

\* C28: a load request that fails before admission writes nothing to the
\* ledger.  In the backend neither the config lookup that answers "not found",
\* nor the step to the probe, nor the failed probe changes the map, the
\* recorded sizes or the active pointer; in the server a name that is not
\* configured is answered "not found" and the slot map is as it was.
C28_EarlyFailureWritesNothing ==
  [][/\ \A l \in Loaders, name \in Names :
          (LoadStart(l, name) /\ (name \notin Models \/ models[name] = NoInst)) =>
            /\ name \notin Models => loader'[l].res = "not_found"
            /\ UNCHANGED <<models, model_sizes, active_model>>
     /\ \A l \in Loaders :
          LoadProbeFail(l) =>
            /\ loader'[l].res = "probe_failed"
            /\ UNCHANGED <<models, model_sizes, active_model>>
     /\ \A name \in Names \ Models, ok \in BOOLEAN :
          (program = "server" /\ load_model(name, ok)) =>
            /\ srv_res' = "not_found"
            /\ slots' = slots]_vars

\* A probe has failed while a model is loaded and active and its size is
\* recorded.
C28_Witness ==
  /\ \E l \in Loaders : loader[l].res = "probe_failed"
  /\ active_model \in Loaded
  /\ model_sizes[active_model] > 0

\* C29: when a load request of the backend is answered with success, after
\* the device load or because the model was loaded already, the model has a
\* present instance and is the active one, and every other model the request
\* evicted has no present instance.
C29_SuccessfulLoad ==
  [][\A l \in Loaders :
       /\ LoadFinishOk(l) =>
            /\ loader'[l].res = "loaded"
            /\ models'[loader[l].name] # NoInst
            /\ active_model' = loader[l].name
            /\ \A i \in DOMAIN loader[l].victims :
                 loader[l].victims[i] # loader[l].name =>
                   models'[loader[l].victims[i]] = NoInst
       /\ \A name \in Models :
            (LoadStart(l, name) /\ loader'[l].res = "already_loaded") =>
              /\ models'[name] # NoInst
              /\ active_model' = name]_vars

\* C30: the admission step evicts nothing when the usage plus the needed
\* footprint fits the limit, and it evicts its i-th victim only if the usage
\* less the sizes of the victims before it, plus the needed footprint, still
\* exceeds the limit; the victims are the models that left the loaded set.
C30_EvictsOnlyWhileOverLimit ==
  [][\A l \in Loaders :
       LoadAdmit(l) =>
         LET required_mb == get_model_file_info(loader[l].name)
             current == current_usage_mb(models, model_sizes')
             victims == loader'[l].victims
         IN /\ current + required_mb <= vram_limit => Loaded' = Loaded
            /\ Loaded \ Loaded' = {victims[i] : i \in DOMAIN victims}
            /\ Loaded' \subseteq Loaded
            /\ \A i \in DOMAIN victims :
                 current
                 - SumSizes(models, model_sizes',
                            {victims[j] : j \in 1..(i - 1)})
                 + required_mb > vram_limit]_vars

\* A load was admitted with one eviction although two models were loaded.
C30_Witness ==
  \E l \in Loaders :
    /\ loader[l].pc = "loading"
    /\ Len(loader[l].victims) = 1
    /\ Cardinality(Loaded) = 1

\* C24: the channel of a stream request never holds more than its capacity
\* of 100 messages, and while it holds 100 and the receiver exists the worker
\* stays in its send: it has sent nothing more and has not ended until a
\* message was received or the client disconnected.
C24_ChannelIsBounded ==
  /\ [](channel.queue <= ChannelCapacity)
  /\ [][(/\ channel.producer = "sending"
         /\ channel.rx
         /\ channel.queue = ChannelCapacity) =>
          \/ channel'.sent = channel.sent /\ channel'.producer = "sending"
          \/ channel'.queue < channel.queue]_vars

\* The channel is full for the second time: the worker waited, a message was
\* received, the worker sent its 101st message and waits again.
C24_Witness ==
  /\ channel.producer = "sending"
  /\ channel.rx
  /\ channel.queue = ChannelCapacity
  /\ channel.sent > ChannelCapacity

\* C31: in one generation the first engine call presents the whole encoded
\* prompt from position 0, and the i-th call, i > 1, presents one token from
\* position prompt length + i - 2, the place of the token the step before
\* appended: the positions follow each other without gap or overlap.
C31_EngineCallsAreContiguous ==
  \A i \in DOMAIN session.calls :
    /\ i = 1 => session.calls[i] = <<session.prompt_len, 0>>
    /\ i > 1 => /\ session.calls[i] = <<1, session.prompt_len + i - 2>>
                /\ Len(session.generated) >= i - 1
    /\ session.calls[i][2] =
         IF i = 1 THEN 0 ELSE session.calls[i - 1][2] + session.calls[i - 1][1]

\* Two calls were made for a prompt of two tokens: the prompt at 0, then the
\* first generated token at 2.
C31_Witness ==
  /\ session.prompt_len = 2
  /\ session.calls = <<(<<2, 0>>), (<<1, 2>>)>>
  /\ session.result = "ok"

\* C32: at the head of every iteration of run_inference's loop the two
\* asserted conditions hold: the context has at least one token, and the
\* running sequence is at least as long as the context.
C32_LoopAssertionsHold ==
  (session.caller \in Kinds /\ session.stage = "loop") =>
    LET input_len == session.prompt_len + Len(session.generated)
    IN /\ context_size(session.index, input_len) >= 1
       /\ input_len >= context_size(session.index, input_len)

\* C33: when the server's generate_blocking has returned Ok and its consumer
\* is still there, the messages it sent contain exactly one Done, and Done is
\* the last of them.
C33_ExactlyOneDone ==
  (session.caller = "server" /\ session.result = "ok" /\ session.connected) =>
    /\ Cardinality({i \in DOMAIN session.events : session.events[i] = "Done"}) = 1
    /\ session.events[Len(session.events)] = "Done"

\* C34: a request that takes the permit while others are queued for it was
\* queued before each of them, and every request that waits for the permit
\* gets it, unless its client gives up first, when every admitted generation
\* comes to an end.
C34_PermitsInWaitingOrder ==
  /\ [][\A r \in Req :
          acquire(r) =>
            \A q \in Req \ {r} :
              req[q].ticket > 0 =>
                (req[r].ticket > 0 /\ req[r].ticket < req[q].ticket)]_vars
  /\ \A r \in Req :
       (req[r].pc = "wait") ~> (req[r].permit \/ req[r].res = "abandoned")

\* A permit is free, a request is queued for it, and a request that arrived
\* later has not polled yet.
C34_Witness ==
  /\ semaphore > 0
  /\ \E r, q \in Req :
       /\ req[r].ticket = 1
       /\ req[q].pc = "wait" /\ req[q].ticket = 0

\* C35: the backend's handlers cannot deadlock.  While any invocation is under
\* way one of them can take its next step; an invocation that waits for a
\* lock of the ledger holds no lock that comes at or after it in the order
\* models, model_sizes, active_model; and an invocation that waits for the
\* permit or for an instance's mutex holds no lock of the ledger.
C35_NoDeadlock ==
  /\ (\E t \in Tasks : task[t] # NoTask) => \E t \in Tasks :
         ENABLED (TaskLock(t) \/ TaskUnlock(t) \/ TaskAwait(t) \/ TaskEnd(t))
  /\ \A t \in Tasks :
       next_step(task[t])[1] = "lock" =>
         LET x == next_step(task[t])[2]
         IN \A y \in holds(task[t]) \cap LedgerLocks :
              x \in LedgerLocks /\ lock_rank(y) < lock_rank(x)

\* A handler that holds the map's lock waits for the active pointer's lock,
\* which a generation request that has the permit holds while a third
\* invocation waits for the permit.
C35_Witness ==
  \E t, u, w \in Tasks :
    /\ holds(task[t]) = {"models"} /\ next_step(task[t]) = take("active_model")
    /\ holds(task[u]) = {"permit", "active_model"}
    /\ task[w] # NoTask /\ next_step(task[w]) = take("permit")

\* C36: the worker of the server's generate comes to its end, and with it
\* the guard on the model map, whatever the number of messages it sends.
C36_GenerateWorkerEnds ==
  (channel.producer = "sending") ~> (channel.producer = "ended")

\* C37: while a worker of the backend is inside run_inference on an instance
\* of a model, the ledger has an instance for that model.
C37_RunningModelIsPresent ==
  program = "backend" =>
    \A r \in Req : Running(r) => models[req[r].active] # NoInst

\* C38: a POST /infer_stream whose client has gone while the request waited
\* for the permit makes no call of the engine and never holds the instance's
\* mutex afterwards.
C38_DisconnectedWaiterDoesNothing ==
  []((session.caller = "stream" /\ session.stage = "wait" /\ ~session.connected) =>
       [](session.calls = <<>> /\ \A i \in Instances : lock_holder[i] = NoReq))

\* C39: the server's ModelManager never holds more than MAX_MODELS models,
\* and a load_model of another model while it holds MAX_MODELS fails and
\* leaves the slot map as it was.
C39_AtMostMaxModels ==
  /\ [](Cardinality(slots) <= MAX_MODELS)
  /\ [][\A name \in Models \ slots, ok \in BOOLEAN :
          (Cardinality(slots) >= MAX_MODELS /\ load_model(name, ok)) =>
            (slots' = slots /\ srv_res' = "limit_reached")]_vars

\* Two models are loaded and the load of a third has been refused.
C39_Witness ==
  /\ program = "server"
  /\ Cardinality(slots) = MAX_MODELS
  /\ srv_res = "limit_reached"

=============================================================================
